---- MODULE Spec2Model ----
(***************************************************************************)
(* Item lifecycle automation (src/src/automation/lifecycle_manager.py):     *)
(* ItemLifecycleManager.mark_item_sold, _delist_from_platform,              *)
(* process_scheduled_delistings and sync_item_status_across_platforms over  *)
(* the listings / platform_listings / sync_log / notifications tables.      *)
(*                                                                         *)
(* Every database statement is one step of StepFn.  Spec runs each handler  *)
(* to completion in one action (Run); ConcSpec interleaves the steps of two *)
(* workers; FairSpec is Spec with a clock that keeps advancing and a sweep  *)
(* that keeps running.  WebSpec is the listing store under the requests of  *)
(* src/web_app.py (save_draft, mark_sold, delete_draft) and the archival    *)
(* sweep archive_sold_items, served by two workers statement by statement;  *)
(* SeqWebSpec serves them one at a time.                                    *)
(***************************************************************************)
EXTENDS Integers, Sequences, FiniteSets, TLC

VARIABLES listings, pls, sync_log, notifications, now, wk, ops,
          \* history variable: per listing, the quantity it was created with
          \* and the units of the sales recorded on it since
          history

vars == <<listings, pls, sync_log, notifications, now, wk, ops, history>>

(* ------------------------------ bounds -------------------------------- *)
\* mark_item_sold / sync_item_status_across_platforms calls in one behaviour
MaxOps == 2
\* the clock stops here
MaxTime == 30
\* a sweep may meet a failing status update only while the log is shorter
MaxLog == 2

(* ----------------------------- constants ------------------------------ *)
\* SQL NULL of cancel_scheduled_at, sold_price, sold_date
NULL == 0 - 1
\* delist_delay_minutes: int = 15
DefaultDelay == 15
\* days_since_sale: int = 30, counted in the unit of the clock
DefaultRetention == 30

ListingIds == {1, 2}
Platforms == {"P1", "P2", "P3"}
PlatformOrder == <<"P1", "P2", "P3">>
Workers == {"w1", "w2"}
Prices == {25, 30}
\* the sold_price of the mark_item_sold calls, which no branch looks at
SalePrices == {25}
InitQuantities == {1, 2}
TickSteps == {DefaultDelay}
SyncStatuses == {"active", "sold", "canceled", "failed"}
\* the quantity field of a save_draft request
DraftQuantities == {0, 1, 2}
\* the quantity_sold field of a mark_sold request
QuantitiesSold == {1, 2}
\* the days_since_sale argument of archive_sold_items
DaysSinceSale == {0, DefaultRetention}
\* the users: listing 1 is user 1's, a draft saved by the route has no user
Users == {1, 2}

(* ------------------------- the database layer ------------------------- *)
DB == [listings |-> listings, pls |-> pls, sync_log |-> sync_log,
       notifications |-> notifications, history |-> history]

\* history: a sale of n units of listing l was written to the store
RecordSale(db, l, n) ==
    [db EXCEPT !.history[l].units = @ + n]

\* db.get_listing: the row, or None
get_listing(db, l) ==
    db.listings[l].exists

\* db.mark_listing_sold: one unit sold on `platform`
mark_listing_sold(db, l, p, price, t) ==
    LET row == db.listings[l]
        q   == IF row.quantity - 1 > 0 THEN row.quantity - 1 ELSE 0
        nl  == IF q = 0
               THEN [row EXCEPT !.quantity = 0, !.status = "sold",
                                !.sold_price = price, !.sold_date = t]
               ELSE [row EXCEPT !.quantity = q]
    IN [db EXCEPT !.listings[l] = nl,
                  !.pls[l][p].status =
                      IF db.pls[l][p].status = "none" THEN "none" ELSE "sold"]

\* db.delete_listing: the row leaves the listings table; its id is not given
\* to a later listing
delete_listing(db, l) ==
    [db EXCEPT !.listings[l] =
        [exists |-> FALSE, quantity |-> 0, status |-> "deleted",
         sold_price |-> NULL, sold_date |-> NULL, user_id |-> NULL]]

\* db.create_notification
create_notification(db, type, l, p) ==
    [db EXCEPT !.notifications =
        Append(@, [type |-> type, listing_id |-> l, platform |-> p])]

RECURSIVE RowsOf(_, _, _)
RowsOf(db, l, i) ==
    IF i > Len(PlatformOrder) THEN <<>>
    ELSE LET p == PlatformOrder[i]
         IN (IF db.pls[l][p].status = "none" THEN <<>>
             ELSE <<[listing_id |-> l, platform |-> p,
                     status |-> db.pls[l][p].status]>>)
            \o RowsOf(db, l, i + 1)

\* db.get_platform_listings: the rows of one listing
get_platform_listings(db, l) ==
    RowsOf(db, l, 1)

\* db.update_platform_listing_status
update_platform_listing_status(db, l, p, s) ==
    IF db.pls[l][p].status = "none" THEN db
    ELSE [db EXCEPT !.pls[l][p].status = s]

\* db.log_sync
log_sync(db, l, p, action, status) ==
    [db EXCEPT !.sync_log =
        Append(@, [listing_id |-> l, platform |-> p, action |-> action,
                   status |-> status])]

(* ------------------------- handler-local state ------------------------ *)
NoResult ==
    [success |-> FALSE, error |-> "", delisted_platforms |-> <<>>,
     scheduled_delistings |-> <<>>, processed |-> 0, succeeded |-> 0,
     failed |-> 0, details |-> <<>>, synced_platforms |-> <<>>,
     failed_platforms |-> <<>>, remaining_quantity |-> 0,
     archived |-> 0, listing_ids |-> <<>>]

IdleLocal ==
    [pc |-> "idle", op |-> "none", listing_id |-> 0, platform |-> "",
     sold_price |-> NULL, auto_delist |-> FALSE, delay |-> 0,
     new_status |-> "", exclude |-> {}, todo |-> <<>>, ok |-> FALSE,
     quantity_sold |-> 0, current_quantity |-> 0,
     days_since_sale |-> 0, user_id |-> NULL,
     at |-> 0, raised |-> FALSE, res |-> NoResult]

\* an exception leaves the handler: the caller gets no result
Raise(loc) ==
    [loc EXCEPT !.pc = "idle", !.raised = TRUE, !.todo = <<>>, !.ok = FALSE,
                !.res = NoResult]

\* lifecycle_manager.py:90-96: the rows the auto-delist loop passes over
SkipDelist(row, platform) ==
    \/ row.platform = platform
    \/ row.status \in {"canceled", "sold", "delisted"}

\* SkipSync that excludes nothing
SkipSync_Nothing(row, exclude) ==
    FALSE

\* lifecycle_manager.py:317-318
SkipSync(row, exclude) ==
    row.platform \in exclude

RECURSIVE DropSkipped(_, _)
\* the `continue` branches of a loop: they touch nothing shared
DropSkipped(loc, todo) ==
    IF todo = <<>> THEN <<>>
    ELSE IF \/ loc.op = "mark_item_sold" /\ SkipDelist(Head(todo), loc.platform)
            \/ loc.op = "sync" /\ SkipSync(Head(todo), loc.exclude)
         THEN DropSkipped(loc, Tail(todo))
         ELSE todo

\* the loop head: the next row to act on, or the return
LoopNext(loc, todo, pcLoop) ==
    LET rest == DropSkipped(loc, todo)
    IN [loc EXCEPT !.todo = rest, !.ok = FALSE,
                   !.pc = IF rest = <<>> THEN "idle" ELSE pcLoop]

\* lifecycle_manager.py:100-108: UPDATE ... SET cancel_scheduled_at = %s
SetCancelScheduledAt(db, l, p, t) ==
    IF db.pls[l][p].status = "none" THEN db
    ELSE [db EXCEPT !.pls[l][p].cancel_scheduled_at = t]

\* lifecycle_manager.py:205-210: UPDATE ... SET cancel_scheduled_at = NULL
ClearCancelScheduledAt(db, l, p) ==
    IF db.pls[l][p].status = "none" THEN db
    ELSE [db EXCEPT !.pls[l][p].cancel_scheduled_at = NULL]

\* IsDue without the status test of the WHERE clause
IsDue_AnyStatus(pl, t) ==
    /\ pl.cancel_scheduled_at /= NULL
    /\ pl.cancel_scheduled_at <= t

\* lifecycle_manager.py:175-181: the WHERE clause of the sweep's SELECT
IsDue(pl, t) ==
    /\ pl.cancel_scheduled_at /= NULL
    /\ pl.cancel_scheduled_at <= t
    /\ pl.status \in {"active", "pending"}

RECURSIVE DueRows(_, _, _, _)
DueRows(db, t, l, i) ==
    IF l > Cardinality(ListingIds) THEN <<>>
    ELSE IF i > Len(PlatformOrder) THEN DueRows(db, t, l + 1, 1)
    ELSE LET p == PlatformOrder[i]
         IN (IF IsDue(db.pls[l][p], t)
             THEN <<[listing_id |-> l, platform |-> p,
                     status |-> db.pls[l][p].status]>>
             ELSE <<>>)
            \o DueRows(db, t, l, i + 1)

\* lifecycle_manager.py:172-183: scheduled = [dict(row) for row in cursor.fetchall()]
SelectDue(db, t) ==
    DueRows(db, t, 1, 1)

(* ------------------------------ mark_item_sold ------------------------ *)
\* MisGet without the `if not listing` return
MisGet_NoCheck(db, loc) ==
    [db |-> db, loc |-> [loc EXCEPT !.pc = "mis_mark"]]

\* lifecycle_manager.py:46-49
MisGet(db, loc) ==
    IF get_listing(db, loc.listing_id)
    THEN [db |-> db, loc |-> [loc EXCEPT !.pc = "mis_mark"]]
    ELSE [db |-> db,
          loc |-> [loc EXCEPT !.pc = "idle",
                              !.res = [NoResult EXCEPT !.error = "Listing not found"]]]

\* lifecycle_manager.py:51-56
MisMark(db, loc, t) ==
    [db  |-> RecordSale(mark_listing_sold(db, loc.listing_id, loc.platform,
                                          loc.sold_price, t),
                        loc.listing_id, 1),
     loc |-> [loc EXCEPT !.pc = "mis_notify"]]

\* MisNotify without the test of auto_delist: the siblings are always handled
MisNotify_AlwaysDelists(db, loc) ==
    [db  |-> create_notification(db, "sale", loc.listing_id, loc.platform),
     loc |-> [loc EXCEPT !.res = [NoResult EXCEPT !.success = TRUE],
                         !.pc = "mis_fetch"]]

\* lifecycle_manager.py:58-82
MisNotify(db, loc) ==
    [db  |-> create_notification(db, "sale", loc.listing_id, loc.platform),
     loc |-> [loc EXCEPT !.res = [NoResult EXCEPT !.success = TRUE],
                         !.pc = IF loc.auto_delist THEN "mis_fetch" ELSE "idle"]]

\* lifecycle_manager.py:84-96
MisFetch(db, loc) ==
    [db  |-> db,
     loc |-> LoopNext(loc, get_platform_listings(db, loc.listing_id), "mis_loop")]

\* lifecycle_manager.py:112: cancel_time.isoformat(), the text of an instant;
\* two instants have the same text only if they are the same
isoformat(t) ==
    [iso |-> t]

\* MisSchedule with the delay left out of cancel_time
MisSchedule_NoDelay(db, loc, t) ==
    LET p == Head(loc.todo).platform
        cancel_time == t
    IN [db  |-> SetCancelScheduledAt(db, loc.listing_id, p, cancel_time),
        loc |-> LoopNext(
                   [loc EXCEPT !.res.scheduled_delistings =
                       Append(@, [platform |-> p,
                                  scheduled_time |-> isoformat(cancel_time)])],
                   Tail(loc.todo), "mis_loop")]

\* lifecycle_manager.py:98-113: schedule the delayed delisting of one sibling
MisSchedule(db, loc, t) ==
    LET p == Head(loc.todo).platform
        cancel_time == t + loc.delay
    IN [db  |-> SetCancelScheduledAt(db, loc.listing_id, p, cancel_time),
        loc |-> LoopNext(
                   [loc EXCEPT !.res.scheduled_delistings =
                       Append(@, [platform |-> p,
                                  scheduled_time |-> isoformat(cancel_time)])],
                   Tail(loc.todo), "mis_loop")]

\* lifecycle_manager.py:133-139: _delist_from_platform's status update; `fail`
\* is the update raising, which enters the except block
DelistUpdate(db, loc, fail, pcLog, pcExc) ==
    LET r == Head(loc.todo)
    IN IF fail
       THEN [db |-> db, loc |-> [loc EXCEPT !.ok = FALSE, !.pc = pcExc]]
       ELSE [db  |-> update_platform_listing_status(db, r.listing_id, r.platform,
                                                    "canceled"),
             loc |-> [loc EXCEPT !.ok = TRUE, !.pc = pcLog]]

\* lifecycle_manager.py:141-163: the log entry of the attempt, 'success' in the
\* try block and 'failed' in the except block
DelistLog(db, loc) ==
    LET r == Head(loc.todo)
    IN log_sync(db, r.listing_id, r.platform, "delist",
                IF loc.ok THEN "success" ELSE "failed")

\* lifecycle_manager.py:141-153, 115-118: the success entry is logged and the
\* immediate delisting returns True and is recorded; `fail` is log_sync raising
MisDelistLog(db, loc, fail) ==
    IF fail
    THEN [db |-> db, loc |-> [loc EXCEPT !.ok = FALSE, !.pc = "mis_dexc"]]
    ELSE [db  |-> DelistLog(db, loc),
          loc |-> LoopNext(
                     [loc EXCEPT !.res.delisted_platforms =
                         Append(@, Head(loc.todo).platform)],
                     Tail(loc.todo), "mis_loop")]

\* lifecycle_manager.py:155-163, 115-118: the except block logs the failure and
\* the delisting returns False and is recorded all the same; `fail` is that
\* log_sync raising, which nothing catches
MisDelistExcept(db, loc, fail) ==
    IF fail
    THEN [db |-> db, loc |-> Raise(loc)]
    ELSE [db  |-> DelistLog(db, loc),
          loc |-> LoopNext(
                     [loc EXCEPT !.res.delisted_platforms =
                         Append(@, Head(loc.todo).platform)],
                     Tail(loc.todo), "mis_loop")]

\* MisLoop with the test `delist_delay_minutes >= 0`: always schedules
MisLoop_AlwaysSchedules(db, loc, t, fail) ==
    IF loc.delay >= 0
    THEN MisSchedule(db, loc, t)
    ELSE DelistUpdate(db, loc, fail, "mis_dlog", "mis_dexc")

\* lifecycle_manager.py:98-118
MisLoop(db, loc, t, fail) ==
    IF loc.delay > 0
    THEN MisSchedule(db, loc, t)
    ELSE DelistUpdate(db, loc, fail, "mis_dlog", "mis_dexc")

(* ---------------------- process_scheduled_delistings ------------------ *)
\* lifecycle_manager.py:172-190
SwSelect(db, loc, t) ==
    [db  |-> db,
     loc |-> LoopNext([loc EXCEPT !.res = [NoResult EXCEPT !.success = TRUE],
                                  !.at = t],
                      SelectDue(db, t), "sw_loop")]

\* lifecycle_manager.py:192-199
SwLoop(db, loc, fail) ==
    DelistUpdate(db, [loc EXCEPT !.res.processed = @ + 1], fail, "sw_log", "sw_exc")

\* lifecycle_manager.py:141-153, 199-203: the success entry is logged and
\* _delist_from_platform returns True; `fail` is log_sync raising
SwLog(db, loc, fail) ==
    IF fail
    THEN [db |-> db, loc |-> [loc EXCEPT !.ok = FALSE, !.pc = "sw_exc"]]
    ELSE [db  |-> DelistLog(db, loc),
          loc |-> [loc EXCEPT !.res.succeeded = @ + 1, !.pc = "sw_clear"]]

\* lifecycle_manager.py:155-163, 217-223: the except block logs the failure and
\* _delist_from_platform returns False; `fail` is that log_sync raising, which
\* nothing catches
SwExcept(db, loc, fail) ==
    LET r == Head(loc.todo)
    IN IF fail
       THEN [db |-> db, loc |-> Raise(loc)]
       ELSE [db  |-> DelistLog(db, loc),
             loc |-> LoopNext(
                        [loc EXCEPT !.res.failed = @ + 1,
                                    !.res.details =
                                        Append(@, [listing_id |-> r.listing_id,
                                                   platform |-> r.platform,
                                                   status |-> "failed"])],
                        Tail(loc.todo), "sw_loop")]

\* SwClear without the UPDATE that clears the scheduled time
SwClear_KeepsTimestamp(db, loc, fail) ==
    LET r == Head(loc.todo)
    IN [db  |-> db,
        loc |-> LoopNext(
                   [loc EXCEPT !.res.details =
                       Append(@, [listing_id |-> r.listing_id,
                                  platform |-> r.platform,
                                  status |-> "success"])],
                   Tail(loc.todo), "sw_loop")]

\* lifecycle_manager.py:204-216; `fail` is the UPDATE raising, which nothing
\* catches
SwClear(db, loc, fail) ==
    LET r == Head(loc.todo)
    IN IF fail
       THEN [db |-> db, loc |-> Raise(loc)]
       ELSE [db  |-> ClearCancelScheduledAt(db, r.listing_id, r.platform),
             loc |-> LoopNext(
                        [loc EXCEPT !.res.details =
                            Append(@, [listing_id |-> r.listing_id,
                                       platform |-> r.platform,
                                       status |-> "success"])],
                        Tail(loc.todo), "sw_loop")]

(* ------------------ sync_item_status_across_platforms ----------------- *)
\* lifecycle_manager.py:302-318
SyFetch(db, loc) ==
    [db  |-> db,
     loc |-> LoopNext([loc EXCEPT !.res = [NoResult EXCEPT !.success = TRUE]],
                      get_platform_listings(db, loc.listing_id), "sy_loop")]

\* SyLoop leaving the loop at the first update that raises
SyLoop_StopsAtFailure(db, loc, fail) ==
    LET r == Head(loc.todo)
    IN IF fail
       THEN [db  |-> db,
             loc |-> LoopNext(
                        [loc EXCEPT !.res.failed_platforms =
                                        Append(@, [platform |-> r.platform,
                                                   error |-> "raised"]),
                                    !.res.success = FALSE],
                        <<>>, "sy_loop")]
       ELSE [db  |-> update_platform_listing_status(db, loc.listing_id, r.platform,
                                                    loc.new_status),
             loc |-> LoopNext(
                        [loc EXCEPT !.res.synced_platforms = Append(@, r.platform)],
                        Tail(loc.todo), "sy_loop")]

\* lifecycle_manager.py:320-335
SyLoop(db, loc, fail) ==
    LET r == Head(loc.todo)
    IN IF fail
       THEN [db  |-> db,
             loc |-> LoopNext(
                        [loc EXCEPT !.res.failed_platforms =
                                        Append(@, [platform |-> r.platform,
                                                   error |-> "raised"]),
                                    !.res.success = FALSE],
                        Tail(loc.todo), "sy_loop")]
       ELSE [db  |-> update_platform_listing_status(db, loc.listing_id, r.platform,
                                                    loc.new_status),
             loc |-> LoopNext(
                        [loc EXCEPT !.res.synced_platforms = Append(@, r.platform)],
                        Tail(loc.todo), "sy_loop")]

(* ------------------------- web_app.py: mark_sold ---------------------- *)
\* web_app.py:332
Max0(n) ==
    IF n > 0 THEN n ELSE 0

\* web_app.py:325-331: the listing is read
MsGet(db, loc) ==
    IF get_listing(db, loc.listing_id)
    THEN [db  |-> db,
          loc |-> [loc EXCEPT !.current_quantity = db.listings[loc.listing_id].quantity,
                              !.pc = "ms_update"]]
    ELSE [db  |-> db,
          loc |-> [loc EXCEPT !.pc = "idle",
                              !.res = [NoResult EXCEPT !.error = "Listing not found"]]]

\* web_app.py:332-359: the remaining quantity is computed from the quantity
\* read and written back (an UPDATE of a row deleted since changes nothing)
MsUpdate(db, loc, t) ==
    LET l == loc.listing_id
        remaining_quantity == Max0(loc.current_quantity - loc.quantity_sold)
        nl == IF ~db.listings[l].exists
              THEN db.listings[l]
              ELSE IF remaining_quantity = 0
              THEN [db.listings[l] EXCEPT !.status = "sold", !.quantity = 0,
                                          !.sold_price = loc.sold_price,
                                          !.sold_date = t]
              ELSE [db.listings[l] EXCEPT !.quantity = remaining_quantity]
    IN [db  |-> RecordSale([db EXCEPT !.listings[l] = nl], l, loc.quantity_sold),
        loc |-> [loc EXCEPT !.pc = "idle",
                            !.res = [NoResult EXCEPT
                                        !.success = TRUE,
                                        !.remaining_quantity = remaining_quantity]]]

(* --------------------------- archive_sold_items ----------------------- *)
\* a SELECT that does not filter on status 'sold' alone
ToArchive_AlsoArchived(row, cutoff_date, user_id) ==
    /\ row.exists
    /\ row.status \in {"sold", "archived"}
    /\ row.sold_date /= NULL
    /\ row.sold_date <= cutoff_date
    /\ user_id /= NULL => row.user_id = user_id

\* lifecycle_manager.py:245-259: the WHERE clause of the archival SELECT
ToArchive(row, cutoff_date, user_id) ==
    /\ row.exists
    /\ row.status = "sold"
    /\ row.sold_date /= NULL
    /\ row.sold_date <= cutoff_date
    /\ user_id /= NULL => row.user_id = user_id

RECURSIVE ArchiveRows(_, _, _, _)
ArchiveRows(db, cutoff_date, user_id, l) ==
    IF l > Cardinality(ListingIds) THEN <<>>
    ELSE (IF ToArchive(db.listings[l], cutoff_date, user_id)
          THEN <<[listing_id |-> l, platform |-> "", status |-> "sold"]>>
          ELSE <<>>)
         \o ArchiveRows(db, cutoff_date, user_id, l + 1)

\* lifecycle_manager.py:242-265: listings_to_archive and the empty results
ArSelect(db, loc, t) ==
    [db  |-> db,
     loc |-> LoopNext([loc EXCEPT !.res = NoResult, !.at = t],
                      ArchiveRows(db, t - loc.days_since_sale, loc.user_id, 1),
                      "ar_loop")]

\* ArLoop whose UPDATE has no WHERE clause
ArLoop_NoWhere(db, loc, fail) ==
    LET r == Head(loc.todo)
    IN [db  |-> [db EXCEPT !.listings =
                    [l \in ListingIds |->
                        IF db.listings[l].exists
                        THEN [db.listings[l] EXCEPT !.status = "archived"]
                        ELSE db.listings[l]]],
        loc |-> LoopNext(
                   [loc EXCEPT !.res.archived = @ + 1,
                               !.res.listing_ids = Append(@, r.listing_id)],
                   Tail(loc.todo), "ar_loop")]

\* lifecycle_manager.py:267-281: UPDATE listings SET status = 'archived' WHERE
\* id = %s, inside try / except; `fail` is the UPDATE raising
ArLoop(db, loc, fail) ==
    LET r == Head(loc.todo)
    IN IF fail
       THEN [db  |-> db,
             loc |-> LoopNext([loc EXCEPT !.res.failed = @ + 1],
                              Tail(loc.todo), "ar_loop")]
       ELSE [db  |-> IF db.listings[r.listing_id].exists
                     THEN [db EXCEPT !.listings[r.listing_id].status = "archived"]
                     ELSE db,
             loc |-> LoopNext(
                        [loc EXCEPT !.res.archived = @ + 1,
                                    !.res.listing_ids = Append(@, r.listing_id)],
                        Tail(loc.todo), "ar_loop")]

(* ------------------------------- stepping ----------------------------- *)
\* one database statement of the handler at loc.pc, at clock t
StepFn(db, loc, t, fail) ==
    CASE loc.pc = "mis_get"    -> MisGet(db, loc)
      [] loc.pc = "mis_mark"   -> MisMark(db, loc, t)
      [] loc.pc = "mis_notify" -> MisNotify(db, loc)
      [] loc.pc = "mis_fetch"  -> MisFetch(db, loc)
      [] loc.pc = "mis_loop"   -> MisLoop(db, loc, t, fail)
      [] loc.pc = "mis_dlog"   -> MisDelistLog(db, loc, fail)
      [] loc.pc = "mis_dexc"   -> MisDelistExcept(db, loc, fail)
      [] loc.pc = "sw_select"  -> SwSelect(db, loc, t)
      [] loc.pc = "sw_loop"    -> SwLoop(db, loc, fail)
      [] loc.pc = "sw_log"     -> SwLog(db, loc, fail)
      [] loc.pc = "sw_exc"     -> SwExcept(db, loc, fail)
      [] loc.pc = "sw_clear"   -> SwClear(db, loc, fail)
      [] loc.pc = "sy_fetch"   -> SyFetch(db, loc)
      [] loc.pc = "sy_loop"    -> SyLoop(db, loc, fail)
      [] loc.pc = "ms_get"     -> MsGet(db, loc)
      [] loc.pc = "ms_update"  -> MsUpdate(db, loc, t)
      [] loc.pc = "ar_select"  -> ArSelect(db, loc, t)
      [] loc.pc = "ar_loop"    -> ArLoop(db, loc, fail)

\* the steps at which a status update may raise
CanFail(loc) ==
    \/ loc.pc = "mis_loop" /\ loc.delay = 0
    \/ loc.pc \in {"sw_loop", "sy_loop", "ar_loop"}

\* the statement a step executes on the row at the head of its loop
FaultPoint(loc) ==
    CASE loc.pc \in {"mis_loop", "sw_loop", "sy_loop", "ar_loop"} -> "update"
      [] loc.pc \in {"mis_dlog", "sw_log"}             -> "log"
      [] loc.pc \in {"mis_dexc", "sw_exc"}             -> "except"
      [] loc.pc = "sw_clear"                           -> "clear"
      [] OTHER                                         -> "none"

\* the steps whose database statement may raise
CanRaise(loc) ==
    \/ CanFail(loc)
    \/ loc.pc \in {"mis_dlog", "mis_dexc", "sw_log", "sw_exc", "sw_clear"}

RECURSIVE Run(_, _, _, _)
\* the handler run to its return, with no other worker in between; the
\* statements <<platform, point>> in `failing` raise.  (Each step is drawn from
\* a one-element set so that it is evaluated once.)
Run(db, loc, t, failing) ==
    IF loc.pc = "idle" THEN [db |-> db, loc |-> loc]
    ELSE CHOOSE r \in
            {Run(s.db, s.loc, t, failing) :
                s \in {StepFn(db, loc, t,
                              /\ CanRaise(loc)
                              /\ <<Head(loc.todo).platform, FaultPoint(loc)>>
                                     \in failing)}} :
            TRUE

\* the local state at the entry of each handler
MisEntry(l, p, price, ad, d) ==
    [IdleLocal EXCEPT !.pc = "mis_get", !.op = "mark_item_sold", !.listing_id = l,
                      !.platform = p, !.sold_price = price, !.auto_delist = ad,
                      !.delay = d]

SwEntry ==
    [IdleLocal EXCEPT !.pc = "sw_select", !.op = "sweep"]

SyEntry(l, s, ex) ==
    [IdleLocal EXCEPT !.pc = "sy_fetch", !.op = "sync", !.listing_id = l,
                      !.new_status = s, !.exclude = ex]

MsEntry(l, price, n) ==
    [IdleLocal EXCEPT !.pc = "ms_get", !.op = "mark_sold", !.listing_id = l,
                      !.sold_price = price, !.quantity_sold = n]

ArEntry(days, user) ==
    [IdleLocal EXCEPT !.pc = "ar_select", !.op = "archive",
                      !.days_since_sale = days, !.user_id = user]

(* -------------------------------- state ------------------------------- *)
Store(db) ==
    /\ history' = db.history
    /\ listings' = db.listings
    /\ pls' = db.pls
    /\ sync_log' = db.sync_log
    /\ notifications' = db.notifications

NoRow == [status |-> "none", cancel_scheduled_at |-> NULL]

\* an id no listing has been given yet
NoListing ==
    [exists |-> FALSE, quantity |-> 0, status |-> "none", sold_price |-> NULL,
     sold_date |-> NULL, user_id |-> NULL]

Init ==
    /\ \E q \in InitQuantities :
          /\ listings = [l \in ListingIds |->
                           IF l = 1
                           THEN [exists |-> TRUE, quantity |-> q, status |-> "active",
                                 sold_price |-> NULL, sold_date |-> NULL,
                                 user_id |-> 1]
                           ELSE NoListing]
          /\ history = [l \in ListingIds |->
                          [initial |-> IF l = 1 THEN q ELSE 0, units |-> 0]]
    /\ pls = [l \in ListingIds |->
                [p \in Platforms |->
                    IF l = 1 THEN [status |-> "active", cancel_scheduled_at |-> NULL]
                    ELSE NoRow]]
    /\ sync_log = <<>>
    /\ notifications = <<>>
    /\ now = 0
    /\ wk = [w \in Workers |-> IdleLocal]
    /\ ops = 0

\* the clock
Tick ==
    /\ \E dt \in TickSteps : now + dt <= MaxTime /\ now' = now + dt
    /\ UNCHANGED <<listings, pls, sync_log, notifications, wk, ops, history>>

Finish(w, s) ==
    /\ Store(s.db)
    /\ wk' = [wk EXCEPT ![w] = s.loc]

\* the row whose log writes and clearing UPDATE may raise: the first or the
\* last sibling attempted, depending on the platform that sold
LogFaultPlatforms == {"P2"}

\* the statements that raise during one handler run: none, or those of one
\* row: its status update, its success log entry, either of these together
\* with the failure log entry of the except block, or the clearing UPDATE
Failings ==
    {{}}
    \cup {{<<p, "update">>} : p \in Platforms}
    \cup {{<<p, "log">>} : p \in LogFaultPlatforms}
    \cup {{<<p, "update">>, <<p, "except">>} : p \in LogFaultPlatforms}
    \cup {{<<p, "log">>, <<p, "except">>} : p \in LogFaultPlatforms}
    \cup {{<<p, "clear">>} : p \in LogFaultPlatforms}

\* the points of failure each handler has
MisFailings == {f \in Failings : \A x \in f : x[2] /= "clear"}
SyFailings == {f \in Failings : \A x \in f : x[2] = "update"}
Excludes == {{}, {"P1"}}

\* the calls of mark_item_sold: every platform, price and delisting mode on the
\* listing that exists, one call on the id that does not
MisInputs ==
    {[l |-> 1, p |-> p, price |-> price, ad |-> m[1], d |-> m[2]] :
        p \in Platforms, price \in SalePrices,
        m \in {<<TRUE, 0>>, <<TRUE, DefaultDelay>>, <<FALSE, DefaultDelay>>}}
    \cup {[l |-> 2, p |-> "P1", price |-> 25, ad |-> TRUE, d |-> DefaultDelay]}

\* the calls of sync_item_status_across_platforms
SyInputs ==
    {[l |-> 1, s |-> s, ex |-> ex] : s \in SyncStatuses, ex \in Excludes}
    \cup {[l |-> 2, s |-> "canceled", ex |-> {}]}

\* may this handler meet failing status updates on `failing`?
FailBudget(failing) ==
    failing = {} \/ Len(sync_log) < MaxLog

\* the worker of Spec, where handlers do not overlap
SeqWorker == "w1"

(* ------------------- Spec: each handler in one action ----------------- *)
MarkItemSold(w) ==
    /\ ops < MaxOps
    /\ wk[w].pc = "idle"
    /\ \E c \in MisInputs, failing \in MisFailings :
          /\ now + c.d <= MaxTime
          /\ failing /= {} => c.l = 1 /\ c.ad /\ c.d = 0
          /\ FailBudget(failing)
          /\ Finish(w, Run(DB, MisEntry(c.l, c.p, c.price, c.ad, c.d), now, failing))
    /\ ops' = ops + 1
    /\ UNCHANGED now

ProcessScheduledDelistings(w) ==
    /\ wk[w].pc = "idle"
    /\ \E failing \in Failings :
          /\ FailBudget(failing)
          /\ Finish(w, Run(DB, SwEntry, now, failing))
    /\ UNCHANGED <<now, ops>>

SyncItemStatus(w) ==
    /\ ops < MaxOps
    /\ wk[w].pc = "idle"
    /\ \E c \in SyInputs, failing \in SyFailings :
          /\ failing /= {} => c.l = 1
          /\ FailBudget(failing)
          /\ Finish(w, Run(DB, SyEntry(c.l, c.s, c.ex), now, failing))
    /\ ops' = ops + 1
    /\ UNCHANGED now

Next ==
    \/ Tick
    \/ MarkItemSold(SeqWorker)
    \/ ProcessScheduledDelistings(SeqWorker)
    \/ SyncItemStatus(SeqWorker)

Spec == Init /\ [][Next]_vars

(* -------------- ConcSpec: two workers, statement by statement --------- *)
\* the calls that overlap: sales of the existing listing on two platforms, with
\* the default delay
ConcMisInputs ==
    {c \in MisInputs : c.l = 1 /\ c.p \in {"P1", "P2"} /\ c.price = 25 /\ c.ad
                        /\ c.d = DefaultDelay}

ConcSyInputs ==
    {c \in SyInputs : c.l = 1 /\ c.s = "active" /\ c.ex = {}}

\* a handler is entered and executes its first statement
Enter(w, entry) ==
    /\ wk[w].pc = "idle"
    /\ Finish(w, StepFn(DB, entry, now, FALSE))

StartMarkItemSold(w) ==
    /\ ops < MaxOps
    /\ \E c \in ConcMisInputs :
          /\ now + c.d <= MaxTime
          /\ Enter(w, MisEntry(c.l, c.p, c.price, c.ad, c.d))
    /\ ops' = ops + 1
    /\ UNCHANGED now

StartSweep(w) ==
    /\ Enter(w, SwEntry)
    /\ UNCHANGED <<now, ops>>

StartSync(w) ==
    /\ ops < MaxOps
    /\ \E c \in ConcSyInputs : Enter(w, SyEntry(c.l, c.s, c.ex))
    /\ ops' = ops + 1
    /\ UNCHANGED now

\* the next statement of the handler worker w is in
Step(w) ==
    /\ wk[w].pc /= "idle"
    /\ \E fail \in BOOLEAN :
          /\ fail => CanFail(wk[w]) /\ Len(sync_log) < MaxLog
          /\ Finish(w, StepFn(DB, wk[w], now, fail))
    /\ UNCHANGED <<now, ops>>

ConcNext ==
    \/ Tick
    \/ \E w \in Workers : StartMarkItemSold(w)
    \/ \E w \in Workers : StartSweep(w)
    \/ \E w \in Workers : StartSync(w)
    \/ \E w \in Workers : Step(w)

\* the listing the overlapping sales compete for has one unit
ConcInit == Init /\ listings[1].quantity = 1

ConcSpec == ConcInit /\ [][ConcNext]_vars

(* ------- WebSpec: the listing store under the web requests ------------ *)
\* web_app.py:163-215: a draft is created with the quantity of the request
\* (the request carries photos); the store gives it the next free id and the
\* status 'draft'
SaveDraft ==
    /\ \E l \in ListingIds, q \in DraftQuantities :
          /\ listings[l] = NoListing
          /\ \A k \in ListingIds : k < l => listings[k] /= NoListing
          /\ listings' = [listings EXCEPT
                             ![l] = [exists |-> TRUE, quantity |-> q,
                                     status |-> "draft", sold_price |-> NULL,
                                     sold_date |-> NULL, user_id |-> NULL]]
          /\ history' = [history EXCEPT ![l] = [initial |-> q, units |-> 0]]
    /\ UNCHANGED <<pls, sync_log, notifications, now, wk, ops>>

\* web_app.py:365-384: delete_draft deletes the listing of the id in the URL
\* if there is one
DeleteDraft ==
    /\ \E l \in ListingIds :
          /\ get_listing(DB, l)
          /\ Store(delete_listing(DB, l))
    /\ UNCHANGED <<now, wk, ops>>

\* web_app.py:315-331: a mark_sold request is taken up and reads the listing
StartMarkSold(w) ==
    /\ ops < MaxOps
    /\ \E l \in ListingIds, price \in Prices, n \in QuantitiesSold :
          Enter(w, MsEntry(l, price, n))
    /\ ops' = ops + 1
    /\ UNCHANGED now

\* the calls of archive_sold_items: for all users or one, at once or after
\* the default retention
ArInputs ==
    {[days |-> d, user |-> u] : d \in DaysSinceSale, u \in {NULL} \cup Users}

\* the archival sweep that overlaps with requests: all users, no retention
ConcArInputs ==
    {c \in ArInputs : c.days = 0 /\ c.user = NULL}

\* lifecycle_manager.py:227-259: an archival sweep starts and selects
StartArchive(w) ==
    /\ \E c \in ConcArInputs : Enter(w, ArEntry(c.days, c.user))
    /\ UNCHANGED <<now, ops>>

WebNext ==
    \/ Tick
    \/ SaveDraft
    \/ DeleteDraft
    \/ \E w \in Workers : StartMarkSold(w)
    \/ \E w \in Workers : StartArchive(w)
    \/ \E w \in Workers : Step(w)

WebSpec == Init /\ [][WebNext]_vars

(* ------------- SeqWebSpec: the same requests, one at a time ----------- *)
\* web_app.py:315-362: one mark_sold request from entry to response
MarkSold(w) ==
    /\ ops < MaxOps
    /\ wk[w].pc = "idle"
    /\ \E l \in ListingIds, price \in Prices, n \in QuantitiesSold :
          Finish(w, Run(DB, MsEntry(l, price, n), now, {}))
    /\ ops' = ops + 1
    /\ UNCHANGED now

\* the UPDATEs of an archival sweep raise, or none does
ArFailings == {{}, {<<"", "update">>}}

\* lifecycle_manager.py:227-283: one archival sweep from entry to return
ArchiveSoldItems(w) ==
    /\ wk[w].pc = "idle"
    /\ \E c \in ArInputs, failing \in ArFailings :
          Finish(w, Run(DB, ArEntry(c.days, c.user), now, failing))
    /\ UNCHANGED <<now, ops>>

SeqWebNext ==
    \/ Tick
    \/ SaveDraft
    \/ DeleteDraft
    \/ MarkSold(SeqWorker)
    \/ ArchiveSoldItems(SeqWorker)

SeqWebSpec == Init /\ [][SeqWebNext]_vars

(* ---------- FairSpec: the clock advances and the sweep keeps running -- *)
\* a sweep in which no status update raises
SweepNoFailure ==
    /\ wk[SeqWorker].pc = "idle"
    /\ \E s \in {Run(DB, SwEntry, now, {})} : Finish(SeqWorker, s)
    /\ UNCHANGED <<now, ops>>

FairSpec == Init /\ [][Next]_vars /\ WF_vars(Tick) /\ WF_vars(SweepNoFailure)

(* ------------------------------- claims ------------------------------- *)
Terminal == {"sold", "canceled", "delisted", "failed"}
TerminalNotSold == {"canceled", "delisted", "failed"}

SoldPlatforms(l) == {p \in Platforms : pls[l][p].status = "sold"}

\* this step is a call of mark_item_sold / the sweep / sync in Spec
IsMarkCall == ops' = ops + 1 /\ wk'[SeqWorker].op = "mark_item_sold"
IsSweepCall == ops' = ops /\ now' = now /\ wk'[SeqWorker].op = "sweep"

\* the log entries and notifications this step appended
NewLog == SubSeq(sync_log', Len(sync_log) + 1, Len(sync_log'))
NewNotifications ==
    SubSeq(notifications', Len(notifications) + 1, Len(notifications'))

\* C1: in every reachable state each Listing has at most one PlatformListing
\* whose status is 'sold'.
C1_AtMostOneSold ==
    \A l \in ListingIds : Cardinality(SoldPlatforms(l)) <= 1

\* a worker inside mark_item_sold, past the point where its result is built
\* (lifecycle_manager.py:72-79)
PastResult(w) ==
    wk[w].op = "mark_item_sold" /\ wk[w].pc \in {"mis_fetch", "mis_loop", "mis_dlog"}

\* C2: of two mark_item_sold invocations running at the same time for the same
\* Listing on two different platforms, exactly one is accepted (success), and
\* the other is surfaced through an 'oversold' notification.
C2_ExactlyOneSaleWins ==
    \A w1, w2 \in Workers :
        (/\ w1 /= w2
         /\ PastResult(w1) /\ PastResult(w2)
         /\ wk[w1].listing_id = wk[w2].listing_id
         /\ wk[w1].platform /= wk[w2].platform)
        => /\ wk[w1].res.success /= wk[w2].res.success
           /\ \E i \in 1..Len(notifications) :
                 /\ notifications[i].type = "oversold"
                 /\ notifications[i].listing_id = wk[w1].listing_id

\* the previous call was a successful sale with the default delay and no sweep
\* has run since
AfterDelayedSale ==
    /\ wk[SeqWorker].op = "mark_item_sold"
    /\ wk[SeqWorker].res.success
    /\ wk[SeqWorker].auto_delist
    /\ wk[SeqWorker].delay = DefaultDelay
    /\ listings[wk[SeqWorker].listing_id].quantity = 0
    /\ listings[wk[SeqWorker].listing_id].status = "sold"
    /\ pls[wk[SeqWorker].listing_id][wk[SeqWorker].platform].status = "sold"

\* C3: a mark_item_sold(L, P2) that follows a successful mark_item_sold(L, P1,
\* delay 15) before any sweep is rejected (success false), emits an 'oversold'
\* and no 'sale' notification, and leaves P2's status and scheduled timestamp
\* as they were.
C3_SecondSaleRejected ==
    [][(/\ AfterDelayedSale
        /\ IsMarkCall
        /\ wk'[SeqWorker].listing_id = wk[SeqWorker].listing_id
        /\ wk'[SeqWorker].platform /= wk[SeqWorker].platform)
       => /\ ~wk'[SeqWorker].res.success
          /\ \E i \in 1..Len(NewNotifications) :
                NewNotifications[i].type = "oversold"
          /\ \A i \in 1..Len(NewNotifications) :
                NewNotifications[i].type /= "sale"
          /\ pls'[wk'[SeqWorker].listing_id][wk'[SeqWorker].platform]
                = pls[wk'[SeqWorker].listing_id][wk'[SeqWorker].platform]]_vars

\* C4: a PlatformListing whose status is 'sold' keeps status 'sold' in every
\* later state.
C4_SoldStaysSold ==
    [][\A l \in ListingIds, p \in Platforms :
          pls[l][p].status = "sold" => pls'[l][p].status = "sold"]_vars

\* every sibling of a sold row of listing l is in a terminal status other than
\* 'sold'
SiblingsRetired(l) ==
    \A p \in SoldPlatforms(l) :
        \A q \in Platforms \ {p} : pls[l][q].status \in TerminalNotSold

\* C5: once a PlatformListing of a Listing is 'sold', every sibling of it
\* eventually has a terminal status other than 'sold' (the sweep keeps running
\* and the clock advances past the scheduled timestamps).  Stated for the sale
\* that auto-delists and is the only call made.
C5_SiblingsEventuallyRetired ==
    (/\ ops = 1
     /\ wk[SeqWorker].op = "mark_item_sold"
     /\ wk[SeqWorker].auto_delist
     /\ SoldPlatforms(1) /= {})
        ~> (SiblingsRetired(1) \/ ops > 1)

\* the entries of a log about one row
EntriesFor(log, l, p, status) ==
    {i \in 1..Len(log) : /\ log[i].listing_id = l
                         /\ log[i].platform = p
                         /\ log[i].status = status}

\* C6: on a Listing with quantity 1 and every PlatformListing 'active',
\* mark_item_sold(L, P1, price, d > 0) ends with L.quantity = 0, L.status =
\* 'sold', P1 'sold', every sibling still 'active' and scheduled at now + d,
\* and no sibling retired in the invocation.
C6_DelayedSaleSchedulesSiblings ==
    [][\A l \in ListingIds :
          (/\ IsMarkCall
           /\ wk'[SeqWorker].listing_id = l
           /\ wk'[SeqWorker].auto_delist
           /\ wk'[SeqWorker].delay > 0
           /\ listings[l].exists
           /\ listings[l].quantity = 1
           /\ \A p \in Platforms : pls[l][p].status = "active")
          => /\ listings'[l].quantity = 0
             /\ listings'[l].status = "sold"
             /\ pls'[l][wk'[SeqWorker].platform].status = "sold"
             /\ \A q \in Platforms \ {wk'[SeqWorker].platform} :
                   /\ pls'[l][q].status = "active"
                   /\ pls'[l][q].cancel_scheduled_at = now + wk'[SeqWorker].delay
             /\ NewLog = <<>>
             /\ wk'[SeqWorker].res.delisted_platforms = <<>>]_vars

\* the first call was a delayed sale of the last unit: the listing is sold and
\* both siblings wait, still active, for now + d
C6_Witness ==
    /\ ops = 1
    /\ wk[SeqWorker].op = "mark_item_sold"
    /\ wk[SeqWorker].auto_delist
    /\ wk[SeqWorker].delay > 0
    /\ listings[1].quantity = 0
    /\ listings[1].status = "sold"
    /\ pls[1][wk[SeqWorker].platform].status = "sold"
    /\ \A q \in Platforms \ {wk[SeqWorker].platform} :
          /\ pls[1][q].status = "active"
          /\ pls[1][q].cancel_scheduled_at = listings[1].sold_date + wk[SeqWorker].delay

\* this step is mark_item_sold(l, ..., auto_delist, delay 0) on a listing that
\* exists
IsImmediateSale(l) ==
    /\ IsMarkCall
    /\ wk'[SeqWorker].listing_id = l
    /\ wk'[SeqWorker].auto_delist
    /\ wk'[SeqWorker].delay = 0
    /\ listings[l].exists

NoTimestampWritten ==
    \A l \in ListingIds, p \in Platforms :
        pls'[l][p].cancel_scheduled_at = pls[l][p].cancel_scheduled_at

RetiredBy(w) ==
    {<<wk[w].res.details[i].listing_id, wk[w].res.details[i].platform>> :
        i \in {j \in 1..Len(wk[w].res.details) :
                  wk[w].res.details[j].status = "success"}}
    \cup (IF wk[w].pc = "sw_clear"
          THEN {<<Head(wk[w].todo).listing_id, Head(wk[w].todo).platform>>}
          ELSE {})

\* C8: a due PlatformListing is retired (status written to 'canceled' and a
\* success entry logged) by exactly one sweep execution, also when two sweep
\* workers run at the same time.
C8_RetiredByOneSweep ==
    \A w1, w2 \in Workers :
        (/\ w1 /= w2
         /\ wk[w1].op = "sweep" /\ wk[w1].pc /= "idle"
         /\ wk[w2].op = "sweep" /\ wk[w2].pc /= "idle")
        => RetiredBy(w1) \cap RetiredBy(w2) = {}

\* C9: process_scheduled_delistings leaves every row that is not, at selection
\* time, scheduled at or before now with status 'active' or 'pending' exactly
\* as it was.
C9_SweepTouchesOnlyDueRows ==
    [][IsSweepCall
       => \A l \in ListingIds, p \in Platforms :
             ~(/\ pls[l][p].cancel_scheduled_at /= NULL
               /\ pls[l][p].cancel_scheduled_at <= now
               /\ pls[l][p].status \in {"active", "pending"})
             => pls'[l][p] = pls[l][p]]_vars

\* a sweep has retired a row, and beside it stand a sold row and a row that
\* was scheduled but is no longer active
C9_Witness ==
    /\ wk[SeqWorker].op = "sweep"
    /\ wk[SeqWorker].res.succeeded >= 1
    /\ \E p, q \in Platforms :
          /\ p /= q
          /\ pls[1][p].status = "sold" /\ pls[1][p].cancel_scheduled_at = NULL
          /\ pls[1][q].status = "sold" /\ pls[1][q].cancel_scheduled_at /= NULL
          /\ pls[1][q].cancel_scheduled_at <= now

\* the rows the sweep of this step reports as retired
ReportedRetired(l, p) ==
    \E i \in 1..Len(wk'[SeqWorker].res.details) :
        wk'[SeqWorker].res.details[i] =
            [listing_id |-> l, platform |-> p, status |-> "success"]

\* C10: after a sweep, every due row whose retirement succeeded has status
\* 'canceled', a null scheduled timestamp, and exactly one success entry
\* appended to the sync log for it.
C10_RetiredRowIsCanceledAndLogged ==
    [][IsSweepCall
       => \A l \in ListingIds, p \in Platforms :
             ReportedRetired(l, p)
             => /\ pls'[l][p].status = "canceled"
                /\ pls'[l][p].cancel_scheduled_at = NULL
                /\ Cardinality(EntriesFor(NewLog, l, p, "success")) = 1]_vars

\* a sweep has retired both siblings of a sale (Scenario B)
C10_Witness ==
    /\ wk[SeqWorker].op = "sweep"
    /\ wk[SeqWorker].res.succeeded = 2
    /\ Cardinality({p \in Platforms :
                       /\ pls[1][p].status = "canceled"
                       /\ pls[1][p].cancel_scheduled_at = NULL
                       /\ EntriesFor(sync_log, 1, p, "success") /= {}}) = 2

\* the rows the sweep of this step reports as failed
ReportedFailed(l, p) ==
    \E i \in 1..Len(wk'[SeqWorker].res.details) :
        wk'[SeqWorker].res.details[i] =
            [listing_id |-> l, platform |-> p, status |-> "failed"]

\* C11: when the retirement of a due row fails during a sweep (any step of
\* _delist_from_platform raises), the row afterwards still has status 'active'
\* and its scheduled timestamp unchanged, and exactly one failure entry is
\* appended to the sync log; a row is never 'canceled' for a retirement that
\* is reported as failed.
C11_FailedRetirementLeavesRowActive ==
    [][IsSweepCall
       => \A l \in ListingIds, p \in Platforms :
             ReportedFailed(l, p)
             => /\ pls'[l][p].status = "active"
                /\ pls'[l][p].cancel_scheduled_at = pls[l][p].cancel_scheduled_at
                /\ Cardinality(EntriesFor(NewLog, l, p, "failed")) = 1
                /\ EntriesFor(NewLog, l, p, "success") = {}]_vars

\* the rows the SELECT of a sweep at this state returns
DueNow(l, p) ==
    /\ pls[l][p].cancel_scheduled_at /= NULL
    /\ pls[l][p].cancel_scheduled_at <= now
    /\ pls[l][p].status \in {"active", "pending"}

\* C12: within one execution of process_scheduled_delistings a failure while
\* processing one due row (in the status update, in either log write, or in
\* clearing the timestamp) never aborts the sweep: the sweep returns a result
\* and every due row it selected is attempted.
C12_SweepNeverAborts ==
    [][IsSweepCall
       => /\ ~wk'[SeqWorker].raised
          /\ \A l \in ListingIds, p \in Platforms :
                DueNow(l, p)
                => \E i \in 1..Len(wk'[SeqWorker].res.details) :
                      /\ wk'[SeqWorker].res.details[i].listing_id = l
                      /\ wk'[SeqWorker].res.details[i].platform = p]_vars

\* the previous call was a sweep, at this same clock value: the step that
\* follows is a second run with no other operation in between
AfterSweep ==
    /\ wk[SeqWorker].op = "sweep"
    /\ wk[SeqWorker].at = now

\* the rows the previous sweep reported as failed
PrevReportedFailed(l, p) ==
    \E i \in 1..Len(wk[SeqWorker].res.details) :
        wk[SeqWorker].res.details[i] =
            [listing_id |-> l, platform |-> p, status |-> "failed"]

\* this step attempts no retirement of row (l, p): no status or timestamp write
\* and no log entry
NotAttempted(l, p) ==
    /\ pls'[l][p] = pls[l][p]
    /\ EntriesFor(NewLog, l, p, "success") = {}
    /\ EntriesFor(NewLog, l, p, "failed") = {}

C14_UnknownListingChangesNothing ==
    [][(IsMarkCall /\ ~listings[wk'[SeqWorker].listing_id].exists)
       => /\ ~wk'[SeqWorker].res.success
          /\ wk'[SeqWorker].res.error = "Listing not found"
          /\ ~wk'[SeqWorker].raised
          /\ UNCHANGED <<listings, pls, sync_log, notifications>>]_vars

\* mark_item_sold has returned 'Listing not found' for an id no listing has
C14_Witness ==
    /\ wk[SeqWorker].op = "mark_item_sold"
    /\ wk[SeqWorker].pc = "idle"
    /\ ~listings[wk[SeqWorker].listing_id].exists
    /\ wk[SeqWorker].res.error = "Listing not found"
    /\ notifications = <<>>

\* C15: for an existing Listing, mark_item_sold reports the sale as successful
\* and keeps the recorded sale (selling row 'sold', Listing quantity, status
\* and sold price) whether the immediate retirement of a sibling succeeds or
\* fails: a sibling retirement failure never rolls back or fails the sale.
C15_SaleSucceedsWhateverSiblingsDo ==
    [][\A l \in ListingIds :
          (IsMarkCall /\ wk'[SeqWorker].listing_id = l /\ listings[l].exists)
          => /\ ~wk'[SeqWorker].raised
             /\ wk'[SeqWorker].res.success
             /\ pls'[l][wk'[SeqWorker].platform].status = "sold"
             /\ listings'[l] =
                   mark_listing_sold(DB, l, wk'[SeqWorker].platform,
                                     wk'[SeqWorker].sold_price, now).listings[l]]_vars

\* C16: the result of mark_item_sold is accurate: 'delisted_platforms' holds
\* exactly the siblings whose row was retired ('canceled') during the
\* invocation, and 'scheduled_delistings' exactly the siblings on which a
\* scheduled timestamp was written, each with the timestamp stored on the row.
C16_ResultIsAccurate ==
    [][\A l \in ListingIds :
          (IsMarkCall /\ wk'[SeqWorker].listing_id = l /\ listings[l].exists
                      /\ ~wk'[SeqWorker].raised)
          => /\ {wk'[SeqWorker].res.delisted_platforms[i] :
                    i \in 1..Len(wk'[SeqWorker].res.delisted_platforms)}
                = {q \in Platforms \ {wk'[SeqWorker].platform} :
                      /\ pls[l][q].status /= "canceled"
                      /\ pls'[l][q].status = "canceled"}
             /\ {wk'[SeqWorker].res.scheduled_delistings[i] :
                    i \in 1..Len(wk'[SeqWorker].res.scheduled_delistings)}
                = {[platform |-> q,
                    scheduled_time |-> isoformat(pls'[l][q].cancel_scheduled_at)] :
                      q \in {r \in Platforms \ {wk'[SeqWorker].platform} :
                                /\ wk'[SeqWorker].auto_delist
                                /\ wk'[SeqWorker].delay > 0
                                /\ pls[l][r].status \in {"active", "pending", "failed"}}}]_vars

\* C17: in every reachable state a Listing with quantity 0 has canonical
\* status 'sold' or 'archived' (after creation by save_draft, after any
\* mark-sold operation and after the archival sweep).
C17_QuantityZeroIsSoldOrArchived ==
    \A l \in ListingIds :
        (listings[l].exists /\ listings[l].quantity = 0)
        => listings[l].status \in {"sold", "archived"}

\* C18: for a Listing whose quantity reached 0 the canonical status changes
\* to 'sold' exactly once and sold price and sold date are written exactly
\* once: a later mark-sold request never rewrites them and never produces a
\* second transition into 'sold'.
C18_SoldExactlyOnce ==
    [][\A l \in ListingIds :
          (listings[l].exists /\ listings[l].sold_date /= NULL)
          => /\ listings'[l].sold_price = listings[l].sold_price
             /\ listings'[l].sold_date = listings[l].sold_date
             /\ listings[l].status /= "sold" => listings'[l].status /= "sold"]_vars

\* no request is between reading listing l and writing it
Quiescent(l) ==
    \A w \in Workers : wk[w].pc = "idle" \/ wk[w].listing_id /= l

\* C19: a sale of n units changes Listing.quantity from q to max(0, q - n),
\* and after any sequence or interleaving of sales the stored quantity equals
\* max(0, initial quantity - total units sold): no decrement is lost.
C19_NoLostDecrement ==
    \A l \in ListingIds :
        (listings[l].exists /\ Quiescent(l))
        => listings[l].quantity = Max0(history[l].initial - history[l].units)

\* this step is a call of sync_item_status_across_platforms in Spec
IsSyncCall == ops' = ops + 1 /\ wk'[SeqWorker].op = "sync"

\* how often platform p is listed in a result list
TimesIn(list, p) ==
    Cardinality({i \in 1..Len(list) : list[i] = p})

\* C20: sync_item_status_across_platforms never raises when a per-platform
\* update fails: every non-excluded PlatformListing of the Listing appears in
\* exactly one of 'synced_platforms' (its status now equals new_status) or
\* 'failed_platforms' (with its error), 'success' is true exactly when
\* 'failed_platforms' is empty, and a failure on one platform does not prevent
\* the update on the others.
C20_SyncReportsEveryPlatform ==
    [][IsSyncCall
       => LET r == wk'[SeqWorker].res
              l == wk'[SeqWorker].listing_id
          IN /\ ~wk'[SeqWorker].raised
             /\ r.success <=> r.failed_platforms = <<>>
             /\ \A p \in Platforms :
                   LET synced == TimesIn(r.synced_platforms, p)
                       failed == TimesIn(r.failed_platforms,
                                         [platform |-> p, error |-> "raised"])
                   IN IF pls[l][p].status /= "none" /\ p \notin wk'[SeqWorker].exclude
                      THEN /\ synced + failed = 1
                           /\ synced = 1 => pls'[l][p].status = wk'[SeqWorker].new_status
                           /\ failed = 1 => pls'[l][p] = pls[l][p]
                      ELSE synced + failed = 0]_vars

\* a sync has returned with one platform failed and the others synced to the
\* new status
C20_Witness ==
    /\ wk[SeqWorker].op = "sync"
    /\ wk[SeqWorker].pc = "idle"
    /\ ~wk[SeqWorker].res.success
    /\ Len(wk[SeqWorker].res.failed_platforms) = 1
    /\ Len(wk[SeqWorker].res.synced_platforms) = 2
    /\ wk[SeqWorker].res.failed_platforms[1].platform = "P2"
    /\ \A i \in 1..2 :
          pls[1][wk[SeqWorker].res.synced_platforms[i]].status = wk[SeqWorker].new_status
    /\ pls[1]["P2"].status /= wk[SeqWorker].new_status

\* C21: sync_item_status_across_platforms has no cascading effect: it leaves
\* the listings (status, quantity, sold price, sold date), every excluded
\* PlatformListing, every PlatformListing of another Listing and every
\* scheduled timestamp as they were, and it triggers no retirement (no sync log
\* entry) and no sale handling (no notification).
C21_SyncDoesNotCascade ==
    [][IsSyncCall
       => /\ UNCHANGED <<listings, sync_log, notifications, history>>
          /\ \A l \in ListingIds, p \in Platforms :
                /\ (l /= wk'[SeqWorker].listing_id \/ p \in wk'[SeqWorker].exclude)
                      => pls'[l][p] = pls[l][p]
                /\ pls'[l][p].cancel_scheduled_at = pls[l][p].cancel_scheduled_at]_vars

\* a sync has changed the rows of a sold listing with scheduled siblings,
\* except the excluded platform's
C21_Witness ==
    /\ wk[SeqWorker].op = "sync"
    /\ wk[SeqWorker].pc = "idle"
    /\ wk[SeqWorker].exclude = {"P1"}
    /\ wk[SeqWorker].new_status = "canceled"
    /\ Len(wk[SeqWorker].res.synced_platforms) = 2
    /\ listings[1].status = "sold"
    /\ pls[1]["P1"].status = "sold"
    /\ pls[1]["P2"].status = "canceled"
    /\ pls[1]["P2"].cancel_scheduled_at /= NULL

\* this step is a call of archive_sold_items in SeqWebSpec
IsArchiveCall ==
    /\ ops' = ops
    /\ now' = now
    /\ wk'[SeqWorker].op = "archive"
    /\ wk'[SeqWorker] /= wk[SeqWorker]

\* the Listings that are 'sold' with sold date at or before now - days, of the
\* given user when one is given
SoldBefore(days, user) ==
    {l \in ListingIds :
        /\ listings[l].exists
        /\ listings[l].status = "sold"
        /\ listings[l].sold_date /= NULL
        /\ listings[l].sold_date <= now - days
        /\ user /= NULL => listings[l].user_id = user}

\* C22: archive_sold_items(days) changes to 'archived' exactly the Listings
\* that are 'sold' with sold date at or before now - days (of the given user
\* when user_id is set); every other Listing keeps its status, no Listing that
\* is not 'sold' becomes 'archived', and no PlatformListing is modified.
C22_ArchivesExactlySelected ==
    [][IsArchiveCall
       => /\ UNCHANGED pls
          /\ \A l \in ListingIds :
                listings'[l] =
                    IF l \in SoldBefore(wk'[SeqWorker].days_since_sale,
                                        wk'[SeqWorker].user_id)
                    THEN [listings[l] EXCEPT !.status = "archived"]
                    ELSE listings[l]]_vars

\* C22 as amended: archive_sold_items(days) attempts exactly those Listings
\* and changes each of them to 'archived' unless its UPDATE raises, which
\* leaves it 'sold' and is counted in 'failed'; every other Listing is
\* unchanged and no PlatformListing is modified.
C22_ArchivesSelectedUnlessRaised ==
    [][IsArchiveCall
       => LET selected == SoldBefore(wk'[SeqWorker].days_since_sale,
                                     wk'[SeqWorker].user_id)
              r == wk'[SeqWorker].res
              ids == {r.listing_ids[i] : i \in 1..Len(r.listing_ids)}
          IN /\ UNCHANGED pls
             /\ r.archived + r.failed = Cardinality(selected)
             /\ r.archived = Cardinality(ids)
             /\ ids \subseteq selected
             /\ \A l \in ListingIds :
                   listings'[l] =
                       IF l \in ids
                       THEN [listings[l] EXCEPT !.status = "archived"]
                       ELSE listings[l]]_vars

\* archive_sold_items for user 1 has archived listing 1 and passed over the
\* sold listing that is not user 1's
C22_Witness ==
    /\ wk[SeqWorker].op = "archive"
    /\ wk[SeqWorker].user_id = 1
    /\ wk[SeqWorker].res.archived = 1
    /\ wk[SeqWorker].res.listing_ids = <<1>>
    /\ wk[SeqWorker].res.failed = 0
    /\ listings[1].status = "archived"
    /\ listings[2].status = "sold"
    /\ \A p \in Platforms : pls[1][p].status = "active"


\* the last operation was a call of archive_sold_items that returned at the
\* present time
AfterArchive ==
    /\ wk[SeqWorker].op = "archive"
    /\ wk[SeqWorker].at = now

\* this step calls archive_sold_items again with the arguments of the call
\* before it
IsSecondArchiveCall ==
    /\ AfterArchive
    /\ IsArchiveCall
    /\ wk'[SeqWorker].days_since_sale = wk[SeqWorker].days_since_sale
    /\ wk'[SeqWorker].user_id = wk[SeqWorker].user_id

\* C23: running archive_sold_items twice in succession with the same argument
\* archives nothing the second time: 'archived' is 0 and 'listing_ids' is
\* empty.
C23_SecondArchiveArchivesNothing ==
    [][IsSecondArchiveCall
       => /\ wk'[SeqWorker].res.archived = 0
          /\ wk'[SeqWorker].res.listing_ids = <<>>
          /\ UNCHANGED listings]_vars

\* C23 as amended: the second run archives nothing when no UPDATE of the first
\* run raised, and otherwise at most the Listings whose UPDATE raised in the
\* first run.
C23_SecondArchiveOnlyRetriesFailed ==
    [][IsSecondArchiveCall
       => /\ wk'[SeqWorker].res.archived <= wk[SeqWorker].res.failed
          /\ Len(wk'[SeqWorker].res.listing_ids) = wk'[SeqWorker].res.archived
          /\ wk[SeqWorker].res.failed = 0
                => /\ wk'[SeqWorker].res.listing_ids = <<>>
                   /\ UNCHANGED listings]_vars

\* an archival sweep over every sold Listing has just found nothing to archive
\* because listing 1, sold at the present time, is already 'archived'
C23_Witness ==
    /\ AfterArchive
    /\ wk[SeqWorker].days_since_sale = 0
    /\ wk[SeqWorker].user_id = NULL
    /\ wk[SeqWorker].res.archived = 0
    /\ wk[SeqWorker].res.failed = 0
    /\ wk[SeqWorker].res.listing_ids = <<>>
    /\ listings[1].status = "archived"
    /\ listings[1].sold_date = now


\* C24: the auto-delist of mark_item_sold acts only on non-terminal siblings;
\* a sibling already 'sold', 'canceled', 'delisted' or 'failed' gets no
\* scheduled-cancellation timestamp and no status change, whether the delay is
\* positive or zero.
C24_TerminalSiblingsUntouched ==
    [][IsMarkCall
       => \A l \in ListingIds, p \in Platforms :
             (p /= wk'[SeqWorker].platform /\ pls[l][p].status \in Terminal)
                => /\ pls'[l][p].status = pls[l][p].status
                   /\ pls'[l][p].cancel_scheduled_at
                          = pls[l][p].cancel_scheduled_at]_vars


\* the 'sale' notifications this step appended
NewSales ==
    {i \in 1..Len(NewNotifications) : NewNotifications[i].type = "sale"}

\* a call of mark_item_sold(l, p) that the specification rejects: the Listing
\* is not found or is already sold on another platform
RejectedSale(l, p) ==
    \/ ~listings[l].exists
    \/ \E q \in Platforms \ {p} : pls[l][q].status = "sold"

\* C25: every accepted sale produces exactly one 'sale' notification carrying
\* the listing id and the platform; a rejected call (Listing not found or
\* already sold on another platform) produces none.
C25_OneSaleNotificationPerAcceptedSale ==
    [][IsMarkCall
       => LET l == wk'[SeqWorker].listing_id
              p == wk'[SeqWorker].platform
          IN IF RejectedSale(l, p)
             THEN NewSales = {}
             ELSE /\ Cardinality(NewSales) = 1
                  /\ \A i \in NewSales :
                        /\ NewNotifications[i].listing_id = l
                        /\ NewNotifications[i].platform = p]_vars


\* this step's retirement of row (l, p) took effect: the row ends 'canceled'
RetiredNow(l, p) ==
    /\ pls[l][p].status /= "canceled"
    /\ pls'[l][p].status = "canceled"

\* C26: the sync log is append-only and complete for retirements: no step
\* modifies or removes an existing entry, and every retirement attempt of
\* _delist_from_platform (from the sweep or from an immediate delist) appends
\* exactly one entry whose outcome is that of the attempt, 'success' exactly
\* when the row ends 'canceled' through the attempt.
C26_LogMatchesRetirements ==
    [][/\ Len(sync_log') >= Len(sync_log)
       /\ SubSeq(sync_log', 1, Len(sync_log)) = sync_log
       /\ (IsSweepCall \/ IsMarkCall)
            => \A l \in ListingIds, p \in Platforms :
                  /\ Cardinality(EntriesFor(NewLog, l, p, "success"))
                       + Cardinality(EntriesFor(NewLog, l, p, "failed")) <= 1
                  /\ EntriesFor(NewLog, l, p, "success") /= {}
                       <=> RetiredNow(l, p)]_vars


\* C27: a Listing is never deleted while a PlatformListing references it: no
\* step deletes a Listing that a PlatformListing row refers to, and in every
\* reachable state, including after the delete-draft route, every
\* PlatformListing row refers to a Listing that exists.
C27_NotDeletedWhileReferenced ==
    [][\A l \in ListingIds :
          /\ (listings[l].exists /\ ~listings'[l].exists)
                => \A p \in Platforms : pls[l][p] = NoRow
          /\ \A p \in Platforms :
                pls'[l][p] /= NoRow => listings'[l].exists]_vars

\* C28: in every reachable state a PlatformListing with a non-null
\* scheduled-cancellation timestamp has status 'active' or 'pending': a row
\* that becomes 'sold', 'canceled' or 'delisted' has a null timestamp
\* afterwards.
C28_ScheduledRowsAreLive ==
    \A l \in ListingIds, p \in Platforms :
        pls[l][p].cancel_scheduled_at /= NULL
            => pls[l][p].status \in {"active", "pending"}


\* C29: once a scheduled-cancellation timestamp T has been written on a
\* PlatformListing, no later operation replaces it with a later time: until
\* the row is retired the stored timestamp stays <= T, so repeated
\* mark_item_sold calls cannot postpone a pending retirement.
C29_TimestampNeverPostponed ==
    [][\A l \in ListingIds, p \in Platforms :
          (/\ pls[l][p].cancel_scheduled_at /= NULL
           /\ pls[l][p].status = "active"
           /\ pls'[l][p].status = "active")
             => pls'[l][p].cancel_scheduled_at <= pls[l][p].cancel_scheduled_at]_vars


\* C30: mark_item_sold with auto_delist = False changes no sibling
\* PlatformListing: every PlatformListing other than the selling platform's
\* has the same status and scheduled-cancellation timestamp after the call as
\* before, no sync log entry is appended, and both 'delisted_platforms' and
\* 'scheduled_delistings' in the result are empty.
C30_NoAutoDelistLeavesSiblings ==
    [][(IsMarkCall /\ ~wk'[SeqWorker].auto_delist)
       => /\ \A l \in ListingIds, p \in Platforms :
                (l /= wk'[SeqWorker].listing_id \/ p /= wk'[SeqWorker].platform)
                   => pls'[l][p] = pls[l][p]
          /\ UNCHANGED sync_log
          /\ wk'[SeqWorker].res.delisted_platforms = <<>>
          /\ wk'[SeqWorker].res.scheduled_delistings = <<>>]_vars

\* a sale on P1 with auto_delist = False has succeeded next to a sibling that
\* is still 'active'
C30_Witness ==
    /\ wk[SeqWorker].op = "mark_item_sold"
    /\ ~wk[SeqWorker].auto_delist
    /\ wk[SeqWorker].platform = "P1"
    /\ wk[SeqWorker].res.success
    /\ ops = 1
    /\ pls[1]["P1"].status = "sold"
    /\ pls[1]["P2"].status = "active"
    /\ pls[1]["P2"].cancel_scheduled_at = NULL
    /\ sync_log = <<>>

====
